---- MODULE Spec2Model ----
(***************************************************************************)
(* Model of the language-school bot: the aiogram router of app.py (its     *)
(* handlers in registration order, the FSM session, the per-user memory    *)
(* MEM, the Gemini call) and the SQLite lead store of storage.py.          *)
(*                                                                         *)
(* A text is a sequence of tokens.  " " is a whitespace character, "a" and *)
(* "b" are ordinary characters.  A menu label or a command word is one     *)
(* token standing for the whole string, so that F.text == label is         *)
(* sequence equality with the one-token text.  The empty sequence stands   *)
(* for a message without text (m.text is None), which every filter of the  *)
(* router treats as it treats the empty string.                            *)
(***************************************************************************)
EXTENDS Integers, Sequences, FiniteSets, TLC

VARIABLES
    ADMIN_ID,   \* app.py:33, read once from the environment
    hasKey,     \* app.py:87, whether gemini_client is not None
    fsmState,   \* FSMContext state of every user ("none" is None)
    fsmData,    \* FSMContext data dict of every user
    MEM,        \* app.py:70, dict user id -> list of (role, text)
    turns,      \* of every user, the (role, text) passed to mem_add since
                \* MEM was last cleared
    leads,      \* table leads of bot.db, the set of its rows
    pending,    \* Gemini calls running in a worker thread, not yet returned
    now,        \* the clock: 1 + the updates / store calls taken so far
    horizon,    \* the number of updates / store calls the run is cut at
    last,       \* the step taken last: who sent what, which handler ran
    prev,       \* the step taken before it
    out         \* the messages sent to Telegram by the step taken last

vars ==
    <<ADMIN_ID, hasKey, fsmState, fsmData, MEM, turns, leads, pending, now,
      horizon, last, prev, out>>

-----------------------------------------------------------------------------
(* Bounds *)

MaxMsgs == 4          \* updates delivered in Spec
MaxIntakeMsgs == 7    \* updates delivered in SpecIntake
MaxCalls == 3         \* store calls made in SpecStore
MaxPending == 1       \* Gemini calls outstanding at a time
MaxLLMMsgs == 8       \* updates delivered in SpecLLM
MaxAskMsgs == 4       \* updates delivered in SpecAsk
MaxMemMsgs == 7       \* updates delivered in SpecMem
MaxTwoMsgs == 6       \* updates delivered in SpecTwo

(* Program constants *)

MEM_MAX == 10

Users == {1, 2}       \* Telegram user ids (private chats)
AdminIds == {0, 1, 2} \* ADMIN_ID unset (0) or set to a user

-----------------------------------------------------------------------------
(* Texts *)

SP == " "
EMPTY == <<>>

START_CMD == <<"/start">>
STATS_CMD == <<"/stats">>
RESET_CMD == <<"/reset_ai">>

TRIAL_BTN == <<"BTN_TRIAL">>
PICK_BTN == <<"BTN_PICK_COURSE">>
PRICING_BTN == <<"BTN_PRICING">>
LEVEL_BTN == <<"BTN_LEVEL_TEST">>
AI_BTN == <<"BTN_AI_QUESTION">>

MenuButtons == {TRIAL_BTN, PICK_BTN, PRICING_BTN, LEVEL_BTN, AI_BTN}

NOT_CONFIGURED == <<"MSG_NOT_CONFIGURED">>
APOLOGY == <<"MSG_APOLOGY">>
NO_ANSWER == <<"MSG_NO_ANSWER">>

RECURSIVE LStrip(_)
LStrip(t) == IF t # <<>> /\ Head(t) = SP THEN LStrip(Tail(t)) ELSE t

RECURSIVE RStrip(_)
RStrip(t) ==
    IF t # <<>> /\ t[Len(t)] = SP THEN RStrip(SubSeq(t, 1, Len(t) - 1)) ELSE t

\* str.strip()
Strip(t) == RStrip(LStrip(t))

RECURSIVE UpToSpace(_)
UpToSpace(t) ==
    IF t = <<>> \/ Head(t) = SP THEN <<>> ELSE <<Head(t)>> \o UpToSpace(Tail(t))

\* text.split(maxsplit=1)[0], <<>> when the split is empty
FirstWord(t) == UpToSpace(LStrip(t))

\* bool(m.text)
Truthy(t) == t # <<>>

\* the Command filter: the first word of the text is the command
IsCommand(t, cmd) == Truthy(t) /\ FirstWord(t) = cmd

-----------------------------------------------------------------------------
(* FSM states *)

NONE == "none"
IntakeOrder == <<"name", "age_group", "level", "goal", "schedule", "contact">>
IntakeSteps == {IntakeOrder[i] : i \in 1..Len(IntakeOrder)}
QUESTION == "question"

DataGet(d, k) == IF k \in DOMAIN d THEN d[k] ELSE EMPTY

DataUpdate(d, k, v) == [x \in DOMAIN d \cup {k} |-> IF x = k THEN v ELSE d[x]]

NoData == [x \in {} |-> EMPTY]

-----------------------------------------------------------------------------
(* storage.py *)

\* the dataclass Lead
Lead(id, n, a, l, g, s, c) ==
    [tg_id |-> id, name |-> n, age_group |-> a, level |-> l, goal |-> g,
     schedule |-> s, contact |-> c]

\* a row of the table leads
Row(lead, time) ==
    [tg_id |-> lead.tg_id, name |-> lead.name, age_group |-> lead.age_group,
     level |-> lead.level, goal |-> lead.goal, schedule |-> lead.schedule,
     contact |-> lead.contact, created_at |-> time]

\* ON CONFLICT(tg_id) DO UPDATE SET the six content columns
UpdateRow(r, lead) ==
    [r EXCEPT !.name = lead.name, !.age_group = lead.age_group,
              !.level = lead.level, !.goal = lead.goal,
              !.schedule = lead.schedule, !.contact = lead.contact]

\* INSERT OR REPLACE
UpsertReplaces(db, lead, time) ==
    {r \in db : r.tg_id # lead.tg_id} \cup {Row(lead, time)}

\* INSERT without a conflict clause into a table without a key
UpsertInserts(db, lead, time) == db \cup {Row(lead, time)}

\* INSERT INTO leads ... ON CONFLICT(tg_id) DO UPDATE; created_at takes its
\* default CURRENT_TIMESTAMP on insert only.  db is the set of rows.
upsert_lead(db, lead, time) ==
    IF \E r \in db : r.tg_id = lead.tg_id
    THEN {IF r.tg_id = lead.tg_id THEN UpdateRow(r, lead) ELSE r : r \in db}
    ELSE db \cup {Row(lead, time)}

\* SELECT COUNT(*) FROM leads
count_leads(db) == Cardinality(db)

\* SELECT ... WHERE tg_id=?, fetchone: <<>> is None, <<lead>> a found lead
get_lead(db, id) ==
    IF \E r \in db : r.tg_id = id
    THEN LET r == CHOOSE x \in db : x.tg_id = id
         IN  <<Lead(r.tg_id, r.name, r.age_group, r.level, r.goal, r.schedule,
                    r.contact)>>
    ELSE <<>>

EmptyDb == {}

-----------------------------------------------------------------------------
(* Conversation memory *)

MemGet(mem, u) == IF u \in DOMAIN mem THEN mem[u] ELSE <<>>

LastN(s, n) == IF Len(s) > n THEN SubSeq(s, Len(s) - n + 1, Len(s)) ELSE s

\* mem_add that cuts with [:MEM_MAX], keeping the oldest turns
MemAddKeepsOldest(mem, u, role, text) ==
    LET items == Append(MemGet(mem, u), <<role, text>>)
    IN  [x \in DOMAIN mem \cup {u} |->
            IF x = u THEN SubSeq(items, 1, IF Len(items) > MEM_MAX THEN MEM_MAX ELSE Len(items))
            ELSE mem[x]]

\* mem_add on one list shared by all users in place of a dict keyed by user
MemAddShared(mem, u, role, text) ==
    [x \in Users |-> LastN(Append(MemGet(mem, x), <<role, text>>), MEM_MAX)]

mem_add(mem, u, role, text) ==
    LET items == Append(MemGet(mem, u), <<role, text>>)
    IN  [x \in DOMAIN mem \cup {u} |->
            IF x = u THEN LastN(items, MEM_MAX) ELSE mem[x]]

\* MEM.clear()
NoMem == [x \in {} |-> <<>>]

-----------------------------------------------------------------------------
(* The router *)

UNHANDLED == "unhandled"

\* the handler of an update: the first, in the order the decorators register
\* them (app.py:150-314), whose filters match
Dispatch(u, t) ==
    IF IsCommand(t, START_CMD) THEN "start"
    ELSE IF t = TRIAL_BTN THEN "trial"
    ELSE IF t = PICK_BTN THEN "pick_course"
    ELSE IF t = PRICING_BTN THEN "pricing"
    ELSE IF t = LEVEL_BTN THEN "level_test"
    ELSE IF t = AI_BTN THEN "ai_mode"
    ELSE IF fsmState[u] = "name" /\ Truthy(t) THEN "intake_name"
    ELSE IF fsmState[u] = "age_group" /\ Truthy(t) THEN "intake_age"
    ELSE IF fsmState[u] = "level" /\ Truthy(t) THEN "intake_level"
    ELSE IF fsmState[u] = "goal" /\ Truthy(t) THEN "intake_goal"
    ELSE IF fsmState[u] = "schedule" /\ Truthy(t) THEN "intake_schedule"
    ELSE IF fsmState[u] = "contact" /\ Truthy(t) THEN "intake_contact"
    ELSE IF fsmState[u] = QUESTION /\ Truthy(t) THEN "ai_answer"
    ELSE IF IsCommand(t, STATS_CMD) THEN "stats"
    ELSE IF IsCommand(t, RESET_CMD) THEN "reset_ai"
    ELSE IF Truthy(t) THEN "fallback"
    ELSE UNHANDLED

\* failed, via: of a resumed handler, whether its Gemini call raised and
\* which handler made the call
Update(u, t, h, raised) ==
    [from |-> u, text |-> t, handler |-> h, raised |-> raised,
     failed |-> FALSE, via |-> h]

\* an outbound Telegram message; ok is whether the send succeeded
Msg(kind, to, body, arg, ok) ==
    [kind |-> kind, to |-> to, body |-> body, arg |-> arg, ok |-> ok]

\* m.answer(body)
Reply(u, body) == Msg("reply", u, body, <<>>, TRUE)

GREETING == <<"MSG_GREETING">>
ASK_NAME == <<"MSG_ASK_NAME">>
ASK_AGE == <<"MSG_ASK_AGE">>
ASK_LEVEL == <<"MSG_ASK_LEVEL">>
ASK_GOAL == <<"MSG_ASK_GOAL">>
ASK_GOAL_PICK == <<"MSG_ASK_GOAL_PICK">>
ASK_SCHEDULE == <<"MSG_ASK_SCHEDULE">>
ASK_CONTACT == <<"MSG_ASK_CONTACT">>
PRICING == <<"MSG_PRICING">>
LEVEL_TEST == <<"MSG_LEVEL_TEST">>
AI_READY == <<"MSG_AI_READY">>
SAVED == <<"MSG_SAVED">>
NEW_LEAD == <<"MSG_NEW_LEAD">>
STATS == <<"MSG_STATS">>
MEM_CLEARED == <<"MSG_MEM_CLEARED">>

\* updates handled one at a time (start_polling with handle_as_tasks=False):
\* the next update is taken only when no handler is suspended
HandledInTurn(u, t, h, raised) ==
    /\ pending = <<>>
    /\ last' = Update(u, t, h, raised)
    /\ prev' = last
    /\ now' = now + 1
    /\ UNCHANGED <<ADMIN_ID, hasKey, horizon>>

\* what every handled update records: the update, the handler, the clock
Handled(u, t, h, raised) ==
    /\ last' = Update(u, t, h, raised)
    /\ prev' = last
    /\ now' = now + 1
    /\ UNCHANGED <<ADMIN_ID, hasKey, horizon>>

-----------------------------------------------------------------------------
(* Handlers *)

\* start with set_state(None) in place of clear(): the data dict survives
StartKeepsData(u, t) ==
    /\ now <= horizon
    /\ Dispatch(u, t) = "start"
    /\ fsmState' = [fsmState EXCEPT ![u] = NONE]
    /\ MEM' = mem_add(MEM, u, "user", START_CMD)
    /\ turns' = [turns EXCEPT ![u] = Append(@, <<"user", START_CMD>>)]
    /\ out' = <<Reply(u, GREETING)>>
    /\ Handled(u, t, "start", FALSE)
    /\ UNCHANGED <<fsmData, leads, pending>>

Start(u, t) ==
    /\ now <= horizon
    /\ Dispatch(u, t) = "start"
    /\ fsmState' = [fsmState EXCEPT ![u] = NONE]
    /\ fsmData' = [fsmData EXCEPT ![u] = NoData]
    /\ MEM' = mem_add(MEM, u, "user", START_CMD)
    /\ turns' = [turns EXCEPT ![u] = Append(@, <<"user", START_CMD>>)]
    /\ out' = <<Reply(u, GREETING)>>
    /\ Handled(u, t, "start", FALSE)
    /\ UNCHANGED <<leads, pending>>

Trial(u, t) ==
    /\ now <= horizon
    /\ Dispatch(u, t) = "trial"
    /\ MEM' = mem_add(MEM, u, "user", t)
    /\ turns' = [turns EXCEPT ![u] = Append(@, <<"user", t>>)]
    /\ fsmState' = [fsmState EXCEPT ![u] = "name"]
    /\ out' = <<Reply(u, ASK_NAME)>>
    /\ Handled(u, t, "trial", FALSE)
    /\ UNCHANGED <<fsmData, leads, pending>>

PickCourse(u, t) ==
    /\ now <= horizon
    /\ Dispatch(u, t) = "pick_course"
    /\ MEM' = mem_add(MEM, u, "user", t)
    /\ turns' = [turns EXCEPT ![u] = Append(@, <<"user", t>>)]
    /\ fsmState' = [fsmState EXCEPT ![u] = "goal"]
    /\ out' = <<Reply(u, ASK_GOAL_PICK)>>
    /\ Handled(u, t, "pick_course", FALSE)
    /\ UNCHANGED <<fsmData, leads, pending>>

Pricing(u, t) ==
    /\ now <= horizon
    /\ Dispatch(u, t) = "pricing"
    /\ MEM' = mem_add(MEM, u, "user", t)
    /\ turns' = [turns EXCEPT ![u] = Append(@, <<"user", t>>)]
    /\ out' = <<Reply(u, PRICING)>>
    /\ Handled(u, t, "pricing", FALSE)
    /\ UNCHANGED <<fsmState, fsmData, leads, pending>>

LevelTest(u, t) ==
    /\ now <= horizon
    /\ Dispatch(u, t) = "level_test"
    /\ MEM' = mem_add(MEM, u, "user", t)
    /\ turns' = [turns EXCEPT ![u] = Append(@, <<"user", t>>)]
    /\ out' = <<Reply(u, LEVEL_TEST)>>
    /\ Handled(u, t, "level_test", FALSE)
    /\ UNCHANGED <<fsmState, fsmData, leads, pending>>

AiMode(u, t) ==
    /\ now <= horizon
    /\ Dispatch(u, t) = "ai_mode"
    /\ MEM' = mem_add(MEM, u, "user", t)
    /\ turns' = [turns EXCEPT ![u] = Append(@, <<"user", t>>)]
    /\ fsmState' = [fsmState EXCEPT ![u] = QUESTION]
    /\ out' = <<Reply(u, AI_READY)>>
    /\ Handled(u, t, "ai_mode", FALSE)
    /\ UNCHANGED <<fsmData, leads, pending>>

IntakeName(u, t) ==
    /\ now <= horizon
    /\ Dispatch(u, t) = "intake_name"
    /\ MEM' = mem_add(MEM, u, "user", t)
    /\ turns' = [turns EXCEPT ![u] = Append(@, <<"user", t>>)]
    /\ fsmData' = [fsmData EXCEPT ![u] = DataUpdate(@, "name", Strip(t))]
    /\ fsmState' = [fsmState EXCEPT ![u] = "age_group"]
    /\ out' = <<Reply(u, ASK_AGE)>>
    /\ Handled(u, t, "intake_name", FALSE)
    /\ UNCHANGED <<leads, pending>>

\* intake_age that stores m.text without strip()
IntakeAgeKeepsSpaces(u, t) ==
    /\ now <= horizon
    /\ Dispatch(u, t) = "intake_age"
    /\ MEM' = mem_add(MEM, u, "user", t)
    /\ turns' = [turns EXCEPT ![u] = Append(@, <<"user", t>>)]
    /\ fsmData' = [fsmData EXCEPT ![u] = DataUpdate(@, "age_group", t)]
    /\ fsmState' = [fsmState EXCEPT ![u] = "level"]
    /\ out' = <<Reply(u, ASK_LEVEL)>>
    /\ Handled(u, t, "intake_age", FALSE)
    /\ UNCHANGED <<leads, pending>>

IntakeAge(u, t) ==
    /\ now <= horizon
    /\ Dispatch(u, t) = "intake_age"
    /\ MEM' = mem_add(MEM, u, "user", t)
    /\ turns' = [turns EXCEPT ![u] = Append(@, <<"user", t>>)]
    /\ fsmData' = [fsmData EXCEPT ![u] = DataUpdate(@, "age_group", Strip(t))]
    /\ fsmState' = [fsmState EXCEPT ![u] = "level"]
    /\ out' = <<Reply(u, ASK_LEVEL)>>
    /\ Handled(u, t, "intake_age", FALSE)
    /\ UNCHANGED <<leads, pending>>

IntakeLevel(u, t) ==
    /\ now <= horizon
    /\ Dispatch(u, t) = "intake_level"
    /\ MEM' = mem_add(MEM, u, "user", t)
    /\ turns' = [turns EXCEPT ![u] = Append(@, <<"user", t>>)]
    /\ fsmData' = [fsmData EXCEPT ![u] = DataUpdate(@, "level", Strip(t))]
    /\ fsmState' = [fsmState EXCEPT ![u] = "goal"]
    /\ out' = <<Reply(u, ASK_GOAL)>>
    /\ Handled(u, t, "intake_level", FALSE)
    /\ UNCHANGED <<leads, pending>>

\* intake_goal that sets Intake.contact in place of Intake.schedule
IntakeGoalSkips(u, t) ==
    /\ now <= horizon
    /\ Dispatch(u, t) = "intake_goal"
    /\ MEM' = mem_add(MEM, u, "user", t)
    /\ turns' = [turns EXCEPT ![u] = Append(@, <<"user", t>>)]
    /\ fsmData' = [fsmData EXCEPT ![u] = DataUpdate(@, "goal", Strip(t))]
    /\ fsmState' = [fsmState EXCEPT ![u] = "contact"]
    /\ out' = <<Reply(u, ASK_CONTACT)>>
    /\ Handled(u, t, "intake_goal", FALSE)
    /\ UNCHANGED <<leads, pending>>

IntakeGoal(u, t) ==
    /\ now <= horizon
    /\ Dispatch(u, t) = "intake_goal"
    /\ MEM' = mem_add(MEM, u, "user", t)
    /\ turns' = [turns EXCEPT ![u] = Append(@, <<"user", t>>)]
    /\ fsmData' = [fsmData EXCEPT ![u] = DataUpdate(@, "goal", Strip(t))]
    /\ fsmState' = [fsmState EXCEPT ![u] = "schedule"]
    /\ out' = <<Reply(u, ASK_SCHEDULE)>>
    /\ Handled(u, t, "intake_goal", FALSE)
    /\ UNCHANGED <<leads, pending>>

IntakeSchedule(u, t) ==
    /\ now <= horizon
    /\ Dispatch(u, t) = "intake_schedule"
    /\ MEM' = mem_add(MEM, u, "user", t)
    /\ turns' = [turns EXCEPT ![u] = Append(@, <<"user", t>>)]
    /\ fsmData' = [fsmData EXCEPT ![u] = DataUpdate(@, "schedule", Strip(t))]
    /\ fsmState' = [fsmState EXCEPT ![u] = "contact"]
    /\ out' = <<Reply(u, ASK_CONTACT)>>
    /\ Handled(u, t, "intake_schedule", FALSE)
    /\ UNCHANGED <<leads, pending>>

\* the Lead with the arguments level and goal exchanged
BuildLeadSwapped(u, data, t) ==
    Lead(u, DataGet(data, "name"), DataGet(data, "age_group"),
         DataGet(data, "goal"), DataGet(data, "level"),
         DataGet(data, "schedule"), Strip(t))

\* the Lead built at app.py:249-257
BuildLead(u, data, t) ==
    Lead(u, DataGet(data, "name"), DataGet(data, "age_group"),
         DataGet(data, "level"), DataGet(data, "goal"),
         DataGet(data, "schedule"), Strip(t))

\* the notification sent before the reply
ContactOutputNotifyFirst(u, lead, sent) ==
    (IF ADMIN_ID # 0 THEN <<Msg("notify", ADMIN_ID, NEW_LEAD, <<lead>>, sent)>>
     ELSE <<>>) \o
    <<Reply(u, SAVED)>>

\* the messages intake_contact sends once the lead is stored: the success
\* reply, then the notification when ADMIN_ID is set (sent: whether
\* bot.send_message succeeded; its exception is caught and logged)
ContactOutput(u, lead, sent) ==
    <<Reply(u, SAVED)>> \o
    (IF ADMIN_ID # 0 THEN <<Msg("notify", ADMIN_ID, NEW_LEAD, <<lead>>, sent)>>
     ELSE <<>>)

\* intake_contact with set_state(None) in place of clear(): the data dict
\* survives the terminal action
IntakeContactKeepsData(u, t) ==
    /\ now <= horizon
    /\ Dispatch(u, t) = "intake_contact"
    /\ MEM' = mem_add(MEM, u, "user", t)
    /\ turns' = [turns EXCEPT ![u] = Append(@, <<"user", t>>)]
    /\ \E dbok \in BOOLEAN, sent \in BOOLEAN :
         LET lead == BuildLead(u, fsmData[u], t)
         IN  IF dbok
             THEN /\ leads' = upsert_lead(leads, lead, now)
                  /\ fsmState' = [fsmState EXCEPT ![u] = NONE]
                  /\ UNCHANGED fsmData
                  /\ out' = ContactOutput(u, lead, sent)
                  /\ Handled(u, t, "intake_contact", FALSE)
             ELSE /\ UNCHANGED <<leads, fsmState, fsmData>>
                  /\ out' = <<>>
                  /\ Handled(u, t, "intake_contact", TRUE)
    /\ UNCHANGED pending

\* intake_contact with the success reply moved before upsert_lead: the reply
\* is sent also when the store then fails
IntakeContactRepliesFirst(u, t) ==
    /\ now <= horizon
    /\ Dispatch(u, t) = "intake_contact"
    /\ MEM' = mem_add(MEM, u, "user", t)
    /\ turns' = [turns EXCEPT ![u] = Append(@, <<"user", t>>)]
    /\ \E dbok \in BOOLEAN, sent \in BOOLEAN :
         LET lead == BuildLead(u, fsmData[u], t)
         IN  IF dbok
             THEN /\ leads' = upsert_lead(leads, lead, now)
                  /\ fsmState' = [fsmState EXCEPT ![u] = NONE]
                  /\ fsmData' = [fsmData EXCEPT ![u] = NoData]
                  /\ out' = ContactOutput(u, lead, sent)
                  /\ Handled(u, t, "intake_contact", FALSE)
             ELSE /\ UNCHANGED <<leads, fsmState, fsmData>>
                  /\ out' = <<Reply(u, SAVED)>>
                  /\ Handled(u, t, "intake_contact", TRUE)
    /\ UNCHANGED pending

\* intake_contact with state.clear() moved before upsert_lead
IntakeContactClearsFirst(u, t) ==
    /\ now <= horizon
    /\ Dispatch(u, t) = "intake_contact"
    /\ MEM' = mem_add(MEM, u, "user", t)
    /\ turns' = [turns EXCEPT ![u] = Append(@, <<"user", t>>)]
    /\ fsmState' = [fsmState EXCEPT ![u] = NONE]
    /\ fsmData' = [fsmData EXCEPT ![u] = NoData]
    /\ \E dbok \in BOOLEAN, sent \in BOOLEAN :
         LET lead == BuildLead(u, fsmData[u], t)
         IN  IF dbok
             THEN /\ leads' = upsert_lead(leads, lead, now)
                  /\ out' = ContactOutput(u, lead, sent)
                  /\ Handled(u, t, "intake_contact", FALSE)
             ELSE /\ UNCHANGED leads
                  /\ out' = <<>>
                  /\ Handled(u, t, "intake_contact", TRUE)
    /\ UNCHANGED pending

\* dbok: whether upsert_lead committed; when it raises, the handler is
\* aborted at app.py:258
IntakeContact(u, t) ==
    /\ now <= horizon
    /\ Dispatch(u, t) = "intake_contact"
    /\ MEM' = mem_add(MEM, u, "user", t)
    /\ turns' = [turns EXCEPT ![u] = Append(@, <<"user", t>>)]
    /\ \E dbok \in BOOLEAN, sent \in BOOLEAN :
         LET lead == BuildLead(u, fsmData[u], t)
         IN  IF dbok
             THEN /\ leads' = upsert_lead(leads, lead, now)
                  /\ fsmState' = [fsmState EXCEPT ![u] = NONE]
                  /\ fsmData' = [fsmData EXCEPT ![u] = NoData]
                  /\ out' = ContactOutput(u, lead, sent)
                  /\ Handled(u, t, "intake_contact", FALSE)
             ELSE /\ UNCHANGED <<leads, fsmState, fsmData>>
                  /\ out' = <<>>
                  /\ Handled(u, t, "intake_contact", TRUE)
    /\ UNCHANGED pending

-----------------------------------------------------------------------------
(* The answer generator *)

\* how a Gemini call ends: generate_content returns resp.text (None counts
\* as the empty text) or raises
RAISED == <<"EXC_RAISED">>
LLMResults == {<<"x", SP>>, <<SP>>, RAISED}

\* at: the clock when the call was handed to the worker thread
Call(u, text, h) == [user |-> u, text |-> text, handler |-> h, at |-> now]

RemoveAt(s, i) == SubSeq(s, 1, i - 1) \o SubSeq(s, i + 1, Len(s))

\* ai_answer's guard against an empty answer (app.py:293-294); fallback has none
FinalAnswer(h, answer) ==
    IF h = "ai_answer" /\ ~Truthy(answer) THEN NO_ANSWER ELSE answer

\* ask_gemini without the test of gemini_client: the call is always made
AskAlwaysCalls(u, t, h) ==
    LET user_text == Strip(t)
    IN  /\ Len(pending) < MaxPending
        /\ MEM' = mem_add(MEM, u, "user", user_text)
        /\ turns' = [turns EXCEPT ![u] = Append(@, <<"user", user_text>>)]
        /\ pending' = Append(pending, Call(u, user_text, h))
        /\ out' = <<>>

\* ai_answer and fallback from the strip of the text on: mem_add, then
\* ask_gemini, which answers at once without a client and otherwise hands
\* the call to a worker thread and suspends the handler
Ask(u, t, h) ==
    LET user_text == Strip(t)
        mem1 == mem_add(MEM, u, "user", user_text)
    IN  IF ~hasKey
        THEN /\ MEM' = mem_add(mem1, u, "assistant", FinalAnswer(h, NOT_CONFIGURED))
             /\ turns' = [turns EXCEPT ![u] = @ \o
                            <<<<"user", user_text>>,
                              <<"assistant", FinalAnswer(h, NOT_CONFIGURED)>>>>]
             /\ out' = <<Reply(u, FinalAnswer(h, NOT_CONFIGURED))>>
             /\ UNCHANGED pending
        ELSE /\ Len(pending) < MaxPending
             /\ MEM' = mem1
             /\ turns' = [turns EXCEPT ![u] = Append(@, <<"user", user_text>>)]
             /\ pending' = Append(pending, Call(u, user_text, h))
             /\ out' = <<>>

AiAnswer(u, t) ==
    /\ now <= horizon
    /\ Dispatch(u, t) = "ai_answer"
    /\ Ask(u, t, "ai_answer")
    /\ Handled(u, t, "ai_answer", FALSE)
    /\ UNCHANGED <<fsmState, fsmData, leads>>

\* ask_gemini without its try/except: the exception of _call leaves
\* ask_gemini and aborts the handler before mem_add and m.answer
LLMReturnPropagates(i, res) ==
    LET call == pending[i]
        answer == FinalAnswer(call.handler, Strip(res))
    IN  /\ pending' = RemoveAt(pending, i)
        /\ IF res = RAISED
           THEN /\ UNCHANGED <<MEM, turns>>
                /\ out' = <<>>
           ELSE /\ MEM' = mem_add(MEM, call.user, "assistant", answer)
                /\ turns' = [turns EXCEPT ![call.user] = Append(@, <<"assistant", answer>>)]
                /\ out' = <<Reply(call.user, answer)>>
        /\ last' = [Update(call.user, call.text, "llm_return", res = RAISED)
                      EXCEPT !.failed = (res = RAISED), !.via = call.handler]
        /\ prev' = last
        /\ UNCHANGED <<ADMIN_ID, hasKey, fsmState, fsmData, leads, now, horizon>>

\* the worker thread of call i returns (failed: _call raised, which
\* ask_gemini turns into the apology) and the suspended handler resumes:
\* mem_add of the answer, m.answer
LLMReturn(i, res) ==
    LET call == pending[i]
        answer == FinalAnswer(call.handler,
                              IF res = RAISED THEN APOLOGY ELSE Strip(res))
    IN  /\ pending' = RemoveAt(pending, i)
        /\ MEM' = mem_add(MEM, call.user, "assistant", answer)
        /\ turns' = [turns EXCEPT ![call.user] = Append(@, <<"assistant", answer>>)]
        /\ out' = <<Reply(call.user, answer)>>
        /\ last' = [Update(call.user, call.text, "llm_return", FALSE)
                      EXCEPT !.failed = (res = RAISED), !.via = call.handler]
        /\ prev' = last
        /\ UNCHANGED <<ADMIN_ID, hasKey, fsmState, fsmData, leads, now, horizon>>

-----------------------------------------------------------------------------
(* Admin commands and the fallback *)

\* dbok: whether count_leads succeeded
Stats(u, t) ==
    /\ now <= horizon
    /\ Dispatch(u, t) = "stats"
    /\ IF u # ADMIN_ID
       THEN /\ out' = <<>>
            /\ Handled(u, t, "stats", FALSE)
       ELSE \E dbok \in BOOLEAN :
              /\ out' = IF dbok
                        THEN <<Msg("reply", u, STATS, <<count_leads(leads)>>, TRUE)>>
                        ELSE <<>>
              /\ Handled(u, t, "stats", ~dbok)
    /\ UNCHANGED <<fsmState, fsmData, MEM, turns, leads, pending>>

ResetAi(u, t) ==
    /\ now <= horizon
    /\ Dispatch(u, t) = "reset_ai"
    /\ IF u # ADMIN_ID
       THEN /\ out' = <<>>
            /\ UNCHANGED <<MEM, turns>>
       ELSE /\ MEM' = NoMem
            /\ turns' = [x \in Users |-> <<>>]
            /\ out' = <<Reply(u, MEM_CLEARED)>>
    /\ Handled(u, t, "reset_ai", FALSE)
    /\ UNCHANGED <<fsmState, fsmData, leads, pending>>

Fallback(u, t) ==
    /\ now <= horizon
    /\ Dispatch(u, t) = "fallback"
    /\ IF fsmState[u] # NONE
       THEN /\ out' = <<>>
            /\ UNCHANGED <<MEM, turns, pending>>
       ELSE Ask(u, t, "fallback")
    /\ Handled(u, t, "fallback", FALSE)
    /\ UNCHANGED <<fsmState, fsmData, leads>>

\* no handler's filters match: the update is dropped
Unhandled(u, t) ==
    /\ now <= horizon
    /\ Dispatch(u, t) = UNHANDLED
    /\ out' = <<>>
    /\ Handled(u, t, UNHANDLED, FALSE)
    /\ UNCHANGED <<fsmState, fsmData, MEM, turns, leads, pending>>

-----------------------------------------------------------------------------
(* The bot *)

PLAIN == <<SP, "a">>
PLAIN2 == <<"b", SP>>
BLANK == <<SP>>
NO_TEXT == <<>>

\* the updates a user can send
Texts ==
    {NO_TEXT, BLANK, PLAIN, START_CMD, STATS_CMD, RESET_CMD} \cup MenuButtons

\* an earlier run of the bot may have left rows in bot.db: init_db creates
\* the table only if it does not exist
OldLead(id) == Lead(id, <<"o">>, <<"o">>, <<"o">>, <<"o">>, <<"o">>, <<"o">>)

InitDbs ==
    {EmptyDb, upsert_lead(EmptyDb, OldLead(1), 0), upsert_lead(EmptyDb, OldLead(2), 0)}

\* the state after the module is loaded and main has run init_db
Fresh ==
    /\ ADMIN_ID \in AdminIds
    /\ fsmState = [u \in Users |-> NONE]
    /\ fsmData = [u \in Users |-> NoData]
    /\ MEM = NoMem
    /\ turns = [x \in Users |-> <<>>]
    /\ pending = <<>>
    /\ now = 1
    /\ last = Update(0, NO_TEXT, "init", FALSE)
    /\ prev = Update(0, NO_TEXT, "init", FALSE)
    /\ out = <<>>

Deliver(u, t) ==
    \/ Start(u, t)
    \/ Trial(u, t)
    \/ PickCourse(u, t)
    \/ Pricing(u, t)
    \/ LevelTest(u, t)
    \/ AiMode(u, t)
    \/ IntakeName(u, t)
    \/ IntakeAge(u, t)
    \/ IntakeLevel(u, t)
    \/ IntakeGoal(u, t)
    \/ IntakeSchedule(u, t)
    \/ IntakeContact(u, t)
    \/ AiAnswer(u, t)
    \/ Stats(u, t)
    \/ ResetAi(u, t)
    \/ Fallback(u, t)
    \/ Unhandled(u, t)

Returns == \E i \in 1..Len(pending), res \in LLMResults : LLMReturn(i, res)

(* Spec: user 1 sends any update, no Gemini key is set *)

Init ==
    /\ Fresh
    /\ hasKey = FALSE
    /\ leads \in {EmptyDb, upsert_lead(EmptyDb, OldLead(1), 0)}
    /\ horizon = MaxMsgs

Next == \E t \in Texts : Deliver(1, t)

Spec == Init /\ [][Next]_vars

(* SpecIntake: user 1 walks the form, no Gemini key is set *)

IntakeTexts == {TRIAL_BTN, PICK_BTN, PLAIN, PLAIN2}

InitIntake ==
    /\ Fresh
    /\ hasKey = FALSE
    /\ leads \in InitDbs
    /\ horizon = MaxIntakeMsgs

NextIntake ==
    \E t \in IntakeTexts :
        \/ Trial(1, t)
        \/ PickCourse(1, t)
        \/ IntakeName(1, t)
        \/ IntakeAge(1, t)
        \/ IntakeLevel(1, t)
        \/ IntakeGoal(1, t)
        \/ IntakeSchedule(1, t)
        \/ IntakeContact(1, t)
        \/ Fallback(1, t)

SpecIntake == InitIntake /\ [][NextIntake]_vars

(* SpecAsk: a Gemini key is set; user 1 asks questions, idle and in AI
   mode, and the calls return at any time *)

AskTexts == {START_CMD, AI_BTN, PLAIN}

InitAsk ==
    /\ Fresh
    /\ ADMIN_ID = 0
    /\ hasKey = TRUE
    /\ leads = EmptyDb
    /\ horizon = MaxAskMsgs

NextAsk ==
    \/ \E t \in AskTexts :
          \/ Start(1, t)
          \/ AiMode(1, t)
          \/ AiAnswer(1, t)
          \/ Fallback(1, t)
    \/ Returns

SpecAsk == InitAsk /\ [][NextAsk]_vars

(* SpecLLM: a Gemini key is set; user 1 asks one question while idle, user 2
   walks the form, and the call returns at any time *)

FormTexts == {TRIAL_BTN, PLAIN}

InitLLM ==
    /\ Fresh
    /\ hasKey = TRUE
    /\ leads = EmptyDb
    /\ horizon = MaxLLMMsgs

NextLLM ==
    \/ MemGet(MEM, 1) = <<>> /\ Fallback(1, PLAIN)
    \/ \E t \in FormTexts :
          \/ Trial(2, t)
          \/ IntakeName(2, t)
          \/ IntakeAge(2, t)
          \/ IntakeLevel(2, t)
          \/ IntakeGoal(2, t)
          \/ IntakeSchedule(2, t)
          \/ IntakeContact(2, t)
    \/ Returns

SpecLLM == InitLLM /\ [][NextLLM]_vars

(* SpecMem: no Gemini key is set; both users talk to the idle bot, which
   answers each text with the fixed string, and send the reset command *)

MemTexts == {PLAIN, START_CMD, RESET_CMD}

InitMem ==
    /\ Fresh
    /\ hasKey = FALSE
    /\ leads = EmptyDb
    /\ horizon = MaxMemMsgs

NextMem ==
    \/ \E t \in MemTexts :
          \/ Start(1, t)
          \/ ResetAi(1, t)
          \/ Fallback(1, t)
    \/ \E t \in MemTexts \ {START_CMD} :
          \/ ResetAi(2, t)
          \/ Fallback(2, t)

SpecMem == InitMem /\ [][NextMem]_vars

(* SpecTwo: two users take the short way through the form (pick a course,
   goal, schedule, contact) in any interleaving; user 1, who may be the
   admin, also asks questions while idle and sends the reset command; the
   calls return at any time; user 2 has a lead from an earlier run *)

TwoTexts == {PICK_BTN, PLAIN}

InitTwo ==
    /\ Fresh
    /\ ADMIN_ID \in {0, 1}
    /\ hasKey \in BOOLEAN
    /\ leads = upsert_lead(EmptyDb, OldLead(2), 0)
    /\ horizon = MaxTwoMsgs

NextTwo ==
    \/ \E u \in Users, t \in TwoTexts :
          \/ PickCourse(u, t)
          \/ IntakeGoal(u, t)
          \/ IntakeSchedule(u, t)
          \/ IntakeContact(u, t)
    \/ Fallback(1, PLAIN)
    \/ ResetAi(1, RESET_CMD)
    \/ Returns

SpecTwo == InitTwo /\ [][NextTwo]_vars

-----------------------------------------------------------------------------
(* SpecStore: a caller of storage.py makes any calls on the store *)

VA == <<"a">>
VB == <<"b">>

StoreLeads ==
    UNION {{Lead(id, VA, VA, VA, VA, VA, VA), Lead(id, VB, VB, VB, VB, VB, VB),
            Lead(id, VA, VB, VA, VB, VA, VB)} : id \in Users}

\* what a call of the store records: the function, its arguments
Called(f, args) ==
    /\ now <= horizon
    /\ last' = Update(0, args, f, FALSE)
    /\ prev' = last
    /\ now' = now + 1
    /\ UNCHANGED <<ADMIN_ID, hasKey, horizon, fsmState, fsmData, MEM, turns, pending>>

CallUpsert(lead) ==
    /\ Called("upsert_lead", <<lead>>)
    /\ leads' = upsert_lead(leads, lead, now)
    /\ out' = <<>>

CallCount ==
    /\ Called("count_leads", <<>>)
    /\ out' = <<count_leads(leads)>>
    /\ UNCHANGED leads

CallGet(id) ==
    /\ Called("get_lead", <<id>>)
    /\ out' = <<get_lead(leads, id)>>
    /\ UNCHANGED leads

InitStore ==
    /\ Fresh
    /\ hasKey = FALSE
    /\ leads \in InitDbs
    /\ horizon = MaxCalls

NextStore ==
    \/ \E lead \in StoreLeads : CallUpsert(lead)
    \/ CallCount
    \/ \E id \in Users : CallGet(id)

SpecStore == InitStore /\ [][NextStore]_vars

-----------------------------------------------------------------------------
(* Claims *)

\* the step taken delivers an update of user u
Delivered(u) == now' = now + 1 /\ last'.from = u

\* the lead stored for user u equals the lead l
Stored(db, u, l) == get_lead(db, u) = <<l>>

\* mem ends with seven user turns, the trial button and six texts that
\* satisfy Form, and the update handled last (by lst) is the sixth text
SentForm(u, mem, lst, Form(_)) ==
    /\ Len(MemGet(mem, u)) >= 7
    /\ LET s == LastN(MemGet(mem, u), 7)
       IN  /\ s[1] = <<"user", TRIAL_BTN>>
           /\ \A i \in 2..7 : s[i][1] = "user" /\ Form(s[i][2])
           /\ lst.from = u /\ lst.text = s[7][2]
           /\ lst.handler # "llm_return" /\ ~lst.raised

\* the lead the claim expects from the seven turns
FormLead(u, mem) ==
    LET s == LastN(MemGet(mem, u), 7)
    IN  Lead(u, Strip(s[2][2]), Strip(s[3][2]), Strip(s[4][2]), Strip(s[5][2]),
             Strip(s[6][2]), Strip(s[7][2]))

FormResult(u, Form(_)) ==
    SentForm(u, MEM', last', Form) =>
        /\ Stored(leads', u, FormLead(u, MEM'))
        /\ fsmState'[u] = NONE
        /\ count_leads(leads') =
             count_leads(leads) + (IF get_lead(leads, u) = <<>> THEN 1 ELSE 0)

NonEmpty(t) == Truthy(t)

IntakeInput(t) == Truthy(t) /\ t \notin MenuButtons /\ ~IsCommand(t, START_CMD)

AtMostOne(db) == \A r1, r2 \in db : r1.tg_id = r2.tg_id => r1 = r2

\* the step taken is a call upsert_lead(l)
Upserted(lst) == lst.handler = "upsert_lead"

\* C2: the store never holds two leads of one identity; an upsert for an
\* identity that has a lead replaces the six content fields, keeps the
\* identity and created_at, and leaves the rows of the other identities alone.
C2_OneLeadPerIdentity ==
    /\ [](AtMostOne(leads))
    /\ [][Upserted(last') =>
            LET l == last'.text[1]
            IN  /\ Stored(leads', l.tg_id, l)
                /\ \A r \in leads :
                     r.tg_id = l.tg_id =>
                       \E q \in leads' :
                         q.tg_id = r.tg_id /\ q.created_at = r.created_at
                /\ {r \in leads' : r.tg_id # l.tg_id} =
                     {r \in leads : r.tg_id # l.tg_id}]_vars

\* C2 witness: the lead of user 1 left by an earlier run has been overwritten
\* while user 2 has a lead of its own.
C2_Witness ==
    /\ Upserted(last) /\ last.text[1].tg_id = 1
    /\ \E r \in leads : r.tg_id = 1 /\ r.created_at = 0 /\ r.name = VB
    /\ \E r \in leads : r.tg_id = 2

\* C3: upsert_lead(l) called twice in a row leaves the store as the first
\* call left it, with the same count, and get_lead returns l after each call.
C3_UpsertIdempotent ==
    /\ [](Upserted(last) => Stored(leads, last.text[1].tg_id, last.text[1]))
    /\ [][(Upserted(last) /\ Upserted(last') /\ last'.text = last.text) =>
            /\ leads' = leads
            /\ count_leads(leads') = count_leads(leads)]_vars

\* C3 witness: the same lead has been upserted twice in a row.
C3_Witness == Upserted(prev) /\ Upserted(last) /\ last.text = prev.text

\* C4 as stated: in an intake step a text that is empty or only whitespace
\* leaves the step and the accumulator as they were and stores no lead.
C4_BlankIgnored ==
    [][\A u \in Users :
         (Delivered(u) /\ fsmState[u] \in IntakeSteps /\ Strip(last'.text) = EMPTY) =>
            /\ fsmState'[u] = fsmState[u]
            /\ fsmData'[u] = fsmData[u]
            /\ leads' = leads]_vars

\* the handler the stated priority selects: commands, menu buttons, the intake
\* step's handler, the AI-question handler, the fallback
ClaimedHandler(u, t) ==
    IF IsCommand(t, START_CMD) THEN "start"
    ELSE IF IsCommand(t, STATS_CMD) THEN "stats"
    ELSE IF IsCommand(t, RESET_CMD) THEN "reset_ai"
    ELSE IF t = TRIAL_BTN THEN "trial"
    ELSE IF t = PICK_BTN THEN "pick_course"
    ELSE IF t = PRICING_BTN THEN "pricing"
    ELSE IF t = LEVEL_BTN THEN "level_test"
    ELSE IF t = AI_BTN THEN "ai_mode"
    ELSE IF fsmState[u] = "name" /\ Truthy(t) THEN "intake_name"
    ELSE IF fsmState[u] = "age_group" /\ Truthy(t) THEN "intake_age"
    ELSE IF fsmState[u] = "level" /\ Truthy(t) THEN "intake_level"
    ELSE IF fsmState[u] = "goal" /\ Truthy(t) THEN "intake_goal"
    ELSE IF fsmState[u] = "schedule" /\ Truthy(t) THEN "intake_schedule"
    ELSE IF fsmState[u] = "contact" /\ Truthy(t) THEN "intake_contact"
    ELSE IF fsmState[u] = QUESTION /\ Truthy(t) THEN "ai_answer"
    ELSE "fallback"

\* C5 as stated: every text message is handled by the handler of the highest
\* priority, commands (start, stats, reset) first, then menu buttons, then the
\* intake step's handler, then the AI-question handler, then the fallback.
C5_CommandsFirst ==
    [][\A u \in Users :
         (Delivered(u) /\ Truthy(last'.text)) =>
            last'.handler = ClaimedHandler(u, last'.text)]_vars

\* C6 as stated: in every session state a stats or reset command of a user
\* other than the admin sends nothing and changes no session, memory or lead.
C6_NonAdminNoOp ==
    [][\A u \in Users :
         (/\ Delivered(u)
          /\ u # ADMIN_ID
          /\ IsCommand(last'.text, STATS_CMD) \/ IsCommand(last'.text, RESET_CMD)) =>
            /\ out' = <<>>
            /\ fsmState' = fsmState
            /\ fsmData' = fsmData
            /\ MEM' = MEM
            /\ leads' = leads]_vars

NextStep(step) ==
    CASE step = "name" -> "age_group"
      [] step = "age_group" -> "level"
      [] step = "level" -> "goal"
      [] step = "goal" -> "schedule"
      [] step = "schedule" -> "contact"
      [] step = "contact" -> NONE

\* an update of user u, in an intake step, whose text is no start command
MidIntake(u) ==
    Delivered(u) /\ fsmState[u] \in IntakeSteps /\ ~IsCommand(last'.text, START_CMD)

StaysOrAdvances(u) == fsmState'[u] \in {fsmState[u], NextStep(fsmState[u])}

C8_StartClears ==
    [][\A u \in Users :
         (Delivered(u) /\ IsCommand(last'.text, START_CMD)) =>
            /\ fsmState'[u] = NONE
            /\ DOMAIN fsmData'[u] = {}
            /\ leads' = leads]_vars

\* C8 witness: start arrived in the contact step, after goal and schedule had
\* been collected.
C8_Witness ==
    /\ prev.handler = "intake_schedule"
    /\ last.handler = "start"
    /\ fsmState[1] = NONE /\ DOMAIN fsmData[1] = {}

\* C9: when upsert_lead raises in the contact step the exception leaves the
\* handler, the session stays in the contact step with its accumulator, no
\* lead is written and nothing is sent.
C9_StorageErrorKeepsSession ==
    [][\A u \in Users :
         (Delivered(u) /\ last'.handler = "intake_contact" /\ last'.raised) =>
            /\ fsmState'[u] = "contact" /\ fsmState[u] = "contact"
            /\ fsmData' = fsmData
            /\ leads' = leads
            /\ out' = <<>>]_vars

\* C9 witness: the contact message failed on the store, was sent again and
\* the lead is stored.
C9_Witness ==
    /\ prev.handler = "intake_contact" /\ prev.raised
    /\ last.handler = "intake_contact" /\ ~last.raised /\ last.text = prev.text
    /\ \E r \in leads : r.tg_id = 1 /\ r.contact = Strip(last.text) /\ r.created_at = now - 1
    /\ fsmState[1] = NONE

\* C10: when a lead is stored the success reply is the first message sent; a
\* notification follows it exactly when ADMIN_ID is not 0, goes to ADMIN_ID and
\* names the lead; whether or not the notification is delivered, no exception
\* leaves the handler, the lead is stored and the session is idle.
C10_ReplyBeforeNotification ==
    [][\A u \in Users :
         (Delivered(u) /\ last'.handler = "intake_contact" /\ ~last'.raised) =>
            LET lead == BuildLead(u, fsmData[u], last'.text)
            IN  /\ Len(out') = IF ADMIN_ID = 0 THEN 1 ELSE 2
                /\ out'[1] = Reply(u, SAVED)
                /\ \A i \in 2..Len(out') :
                     /\ out'[i].kind = "notify" /\ out'[i].to = ADMIN_ID
                     /\ out'[i].arg = <<lead>>
                /\ Stored(leads', u, lead)
                /\ fsmState'[u] = NONE /\ DOMAIN fsmData'[u] = {}]_vars

\* C10 witness: the notification failed after the success reply was sent, and
\* the lead is stored and the session idle.
C10_Witness ==
    /\ last.handler = "intake_contact" /\ ~last.raised
    /\ Len(out) = 2 /\ out[1].body = SAVED /\ out[2].kind = "notify" /\ ~out[2].ok
    /\ \E r \in leads : r.tg_id = 1 /\ r.contact = Strip(last.text)
    /\ fsmState[1] = NONE

\* the last turn of the memory of user u
LastTurn(mem, u) == MemGet(mem, u)[Len(MemGet(mem, u))]

\* the step taken resumes a handler suspended in ask_gemini
Resumed == now' = now /\ Len(pending') < Len(pending)

\* C11: with a client, ai_answer and the idle fallback append the question to
\* the sender's memory and leave the session alone; when the Gemini call
\* raises, no exception leaves the handler, the reply is the apology, the
\* apology is appended to the sender's memory as an assistant turn and the
\* session of every user is as it was.
C11_FailureGivesApology ==
    [][/\ \A u \in Users :
            (/\ Delivered(u) /\ hasKey
             /\ \/ last'.handler = "ai_answer"
                \/ last'.handler = "fallback" /\ fsmState[u] = NONE) =>
               /\ ~last'.raised
               /\ LastTurn(MEM', u) = <<"user", Strip(last'.text)>>
               /\ fsmState' = fsmState /\ fsmData' = fsmData
       /\ (Resumed /\ last'.failed) =>
               /\ ~last'.raised
               /\ last'.via \in {"ai_answer", "fallback"}
               /\ out' = <<Reply(last'.from, APOLOGY)>>
               /\ LastTurn(MEM', last'.from) = <<"assistant", APOLOGY>>
               /\ turns'[last'.from] =
                    Append(turns[last'.from], <<"assistant", APOLOGY>>)
               /\ fsmState' = fsmState /\ fsmData' = fsmData]_vars

\* C11 witness: a question asked while idle and a question asked in AI mode
\* have both failed; the memory holds each question followed by the apology
\* and the session is still in AI mode.
C11_Witness ==
    /\ last.handler = "llm_return" /\ last.failed /\ last.via = "ai_answer"
    /\ out = <<Reply(1, APOLOGY)>>
    /\ fsmState[1] = QUESTION
    /\ MEM[1] = <<<<"user", Strip(PLAIN)>>, <<"assistant", APOLOGY>>,
                  <<"user", AI_BTN>>,
                  <<"user", Strip(PLAIN)>>, <<"assistant", APOLOGY>>>>

\* a text that is neither a menu button label nor the start command
FreeText(t) == Truthy(t) /\ t \notin MenuButtons /\ ~IsCommand(t, START_CMD)

\* C12: without a client, every free text sent in AI mode is handled by
\* ai_answer, which replies with the fixed not-configured string without
\* handing any call to a worker thread; afterwards the sender's memory ends
\* with the trimmed question as a user turn and the fixed string as an
\* assistant turn, and the session is still in AI mode.
C12_NotConfigured ==
    [][\A u \in Users :
         (Delivered(u) /\ ~hasKey /\ fsmState[u] = QUESTION /\ FreeText(last'.text)) =>
            /\ last'.handler = "ai_answer" /\ ~last'.raised
            /\ out' = <<Reply(u, NOT_CONFIGURED)>>
            /\ pending' = pending /\ pending = <<>>
            /\ Len(MemGet(MEM', u)) >= 2
            /\ LastN(MemGet(MEM', u), 2) =
                 <<<<"user", Strip(last'.text)>>, <<"assistant", NOT_CONFIGURED>>>>
            /\ fsmState'[u] = QUESTION]_vars

\* C12 witness: in AI mode user 1 has asked twice and the memory holds both
\* questions, each followed by the fixed string.
C12_Witness ==
    /\ ~hasKey
    /\ prev.handler = "ai_answer" /\ last.handler = "ai_answer"
    /\ last.text = PLAIN
    /\ out = <<Reply(1, NOT_CONFIGURED)>>
    /\ pending = <<>>
    /\ Len(MEM[1]) = 5
    /\ LastN(MEM[1], 2) = <<<<"user", <<"a">>>>, <<"assistant", NOT_CONFIGURED>>>>
    /\ MEM[1][3] = <<"assistant", NOT_CONFIGURED>>

\* the (role, text) turns appended for user u since MEM was last cleared
TurnsOf(u) == turns[u]

\* the step taken is the reset command handled for the admin
AdminReset == last'.handler = "reset_ai" /\ last'.from = ADMIN_ID /\ now' = now + 1

\* new keeps every turn of old but, when new is full, some of the oldest
KeepsRecent(old, new) ==
    \E k \in 0..Len(old) :
        /\ Len(new) >= Len(old) - k
        /\ SubSeq(old, k + 1, Len(old)) = SubSeq(new, 1, Len(old) - k)
        /\ k > 0 => Len(new) = MEM_MAX

\* C13: the memory of every user holds at most 10 turns and equals, in order,
\* the most recent min(k, 10) of the k turns appended for that user since the
\* last admin reset; a step other than the admin's reset command removes
\* turns of a memory only from its old end and only when the memory is full.
C13_MemoryIsLastTen ==
    /\ [](\A u \in Users :
            /\ Len(MemGet(MEM, u)) <= MEM_MAX
            /\ MemGet(MEM, u) = LastN(TurnsOf(u), MEM_MAX))
    /\ [][~AdminReset =>
            \A u \in Users : KeepsRecent(MemGet(MEM, u), MemGet(MEM', u))]_vars

\* C13 witness: more than 10 turns were appended for user 1 and the memory
\* holds the last 10 of them, the oldest gone.
C13_Witness ==
    /\ Len(TurnsOf(1)) > MEM_MAX
    /\ Len(MEM[1]) = MEM_MAX
    /\ MEM[1][1] = TurnsOf(1)[Len(TurnsOf(1)) - MEM_MAX + 1]
    /\ MEM[1][1] # TurnsOf(1)[1]

\* a call made for a user other than b is outstanding
OthersPending(b) ==
    pending # <<>> /\ \A i \in 1..Len(pending) : pending[i].user # b

\* C14: while a Gemini call made for another user is outstanding, every
\* update of user b is handled: whatever b sends, in whatever step of the
\* form b is, the handler the router selects can run to its end (a handler
\* that itself needs a worker thread, when one is free).
C14_PendingDoesNotBlock ==
    \A b \in Users, t \in Texts :
        (/\ OthersPending(b)
         /\ now <= horizon
         /\ Dispatch(b, t) \in {"ai_answer", "fallback"} => Len(pending) < MaxPending) =>
            ENABLED Deliver(b, t)

\* C14 witness: the question user 1 asked in the first update is still
\* unanswered, and since then user 2 has pressed the trial button, sent the
\* six texts and has the lead stored.
C14_Witness ==
    /\ Len(pending) = 1 /\ pending[1].user = 1 /\ pending[1].at = 1
    /\ MEM[1] = <<<<"user", Strip(PLAIN)>>>>
    /\ SentForm(2, MEM, last, IntakeInput)
    /\ last.handler = "intake_contact"
    /\ Stored(leads, 2, FormLead(2, MEM))
    /\ \E r \in leads : r.tg_id = 2 /\ r.created_at = now - 1
    /\ fsmState[2] = NONE

\* the rows of the store that belong to user u
RowsOf(db, u) == {r \in db : r.tg_id = u}

\* C15: a step taken for user a (an update of a handled, or a handler of a
\* resumed) leaves the session step, the accumulator and the lead of every
\* other user b as they were, and leaves b's memory as it was unless the step
\* is the reset command of the admin, which empties every memory.
C15_NoLeakAcrossUsers ==
    [][\A a \in Users, b \in Users :
         (a # b /\ (Delivered(a) \/ Resumed) /\ last'.from = a) =>
            /\ fsmState'[b] = fsmState[b]
            /\ fsmData'[b] = fsmData[b]
            /\ RowsOf(leads', b) = RowsOf(leads, b)
            /\ IF AdminReset
               THEN MEM' = NoMem
               ELSE MemGet(MEM', b) = MemGet(MEM, b)]_vars

\* C15 witness: user 1 has just had a lead stored while user 2 is in the
\* middle of the form with a goal collected, turns in memory and the lead of
\* an earlier run, all untouched.
C15_Witness ==
    /\ last.from = 1 /\ last.handler = "intake_contact" /\ ~last.raised
    /\ Cardinality(RowsOf(leads, 1)) = 1
    /\ fsmState[2] = "schedule"
    /\ fsmData[2] = DataUpdate(NoData, "goal", Strip(PLAIN))
    /\ MemGet(MEM, 2) = <<<<"user", PICK_BTN>>, <<"user", PLAIN>>>>
    /\ Stored(leads, 2, OldLead(2))

\* the step taken stores a lead for user u
StoresLead(u) ==
    Delivered(u) /\ last'.handler = "intake_contact" /\ ~last'.raised

\* the fields the form collects before the contact
CollectedFields == {"name", "age_group", "level", "goal", "schedule"}

\* C16 as stated: whenever the terminal action stores a lead, every one of
\* name, age_group, level, goal and schedule was submitted since the session
\* was last cleared (the accumulator holds it) and the stored field equals
\* it, and the stored contact is the trimmed final message; no stored field
\* is a default.
C16_FullRecord ==
    [][\A u \in Users :
         StoresLead(u) =>
            /\ RowsOf(leads', u) # {}
            /\ \A r \in RowsOf(leads', u) :
                 /\ \A f \in CollectedFields :
                      f \in DOMAIN fsmData[u] /\ r[f] = fsmData[u][f]
                 /\ r.contact = Strip(last'.text)]_vars

NonTerminalSteps == IntakeSteps \ {"contact"}

\* the handler registered for an intake step
StepHandler(step) ==
    CASE step = "name" -> "intake_name"
      [] step = "age_group" -> "intake_age"
      [] step = "level" -> "intake_level"
      [] step = "goal" -> "intake_goal"
      [] step = "schedule" -> "intake_schedule"
      [] step = "contact" -> "intake_contact"

\* C17: in each of the steps name, age_group, level, goal and schedule a text
\* that is no menu label (and no start command) is given to the handler of
\* that step, and whenever one of the five handlers runs, the session moves
\* to the next step of the linear order, the accumulator gains exactly the
\* field of the step, set to the trimmed text, every other field keeps its
\* value, and the store is unchanged.
C17_StepFrame ==
    [][\A u \in Users :
         /\ (Delivered(u) /\ fsmState[u] \in NonTerminalSteps /\ FreeText(last'.text)) =>
               last'.handler = StepHandler(fsmState[u])
         /\ (Delivered(u) /\ last'.handler \in {StepHandler(x) : x \in NonTerminalSteps}) =>
               LET step == fsmState[u]
               IN  /\ step \in NonTerminalSteps
                   /\ last'.handler = StepHandler(step)
                   /\ ~last'.raised
                   /\ fsmState'[u] = NextStep(step)
                   /\ DOMAIN fsmData'[u] = DOMAIN fsmData[u] \cup {step}
                   /\ fsmData'[u][step] = Strip(last'.text)
                   /\ \A k \in DOMAIN fsmData[u] \ {step} :
                        fsmData'[u][k] = fsmData[u][k]
                   /\ leads' = leads]_vars

\* C17 witness: the goal arrived after a name had been collected and the
\* pick-a-course button pressed; the accumulator holds the name as it was
\* and the trimmed goal, and the session is in the schedule step.
C17_Witness ==
    /\ prev.handler = "pick_course"
    /\ last.handler = "intake_goal" /\ last.text = PLAIN
    /\ fsmState[1] = "schedule"
    /\ DOMAIN fsmData[1] = {"name", "goal"}
    /\ fsmData[1]["name"] = <<"/stats">>
    /\ fsmData[1]["goal"] = <<"a">>

\* C18: a user whose session is idle has an empty accumulator; the
\* accumulator of a user changes only when an intake step handler of that
\* user adds its field, or when start or the terminal action empties it
\* together with the step.
C18_IdleHasNoData ==
    /\ [](\A u \in Users : fsmState[u] = NONE => fsmData[u] = NoData)
    /\ [][\A u \in Users :
            fsmData'[u] # fsmData[u] =>
               /\ last'.from = u
               /\ \/ /\ fsmState[u] \in NonTerminalSteps
                     /\ last'.handler = StepHandler(fsmState[u])
                  \/ /\ last'.handler \in {"start", "intake_contact"}
                     /\ fsmData'[u] = NoData
                     /\ fsmState'[u] = NONE]_vars

\* C18 witness: the terminal action has stored the lead of a user who had
\* collected goal and schedule, and has left the user idle with nothing in
\* the accumulator.
C18_Witness ==
    /\ prev.handler = "intake_schedule"
    /\ last.handler = "intake_contact" /\ ~last.raised
    /\ fsmState[1] = NONE /\ fsmData[1] = NoData
    /\ \E r \in leads : r.tg_id = 1 /\ r.goal = <<"a">> /\ r.created_at = now - 1

\* the messages the terminal action sends about a lead
AboutLead(m) == m.body \in {SAVED, NEW_LEAD}

\* C19: the success reply and the notification are sent only by the terminal
\* action and only once the lead is stored and the session cleared: in the
\* state the step leaves, the store holds the sender's lead with the contact
\* of the final message and the sender is idle with an empty accumulator;
\* the reply goes to the sender and comes first, the notification follows
\* it and names the stored lead; when the store fails nothing is sent.
C19_PersistClearReplyNotify ==
    [][\A i \in 1..Len(out') :
         (now' = now + 1 /\ AboutLead(out'[i])) =>
            LET u == last'.from
            IN  /\ last'.handler = "intake_contact"
                /\ ~last'.raised
                /\ \E r \in leads' : r.tg_id = u /\ r.contact = Strip(last'.text)
                /\ fsmState'[u] = NONE /\ fsmData'[u] = NoData
                /\ out'[1] = Reply(u, SAVED)
                /\ i > 1 => /\ i = 2
                            /\ out'[i].kind = "notify"
                            /\ out'[i].arg = get_lead(leads', u)]_vars

\* C19 witness: the notification for the lead of user 1 was delivered to the
\* admin, user 2, after the reply; it names the lead the store holds and
\* user 1 is idle.
C19_Witness ==
    /\ last.handler = "intake_contact" /\ last.from = 1 /\ ~last.raised
    /\ ADMIN_ID = 2
    /\ Len(out) = 2 /\ out[1] = Reply(1, SAVED)
    /\ out[2].kind = "notify" /\ out[2].to = 2 /\ out[2].ok
    /\ out[2].arg = get_lead(leads, 1) /\ out[2].arg # <<>>
    /\ fsmState[1] = NONE /\ fsmData[1] = NoData

====
